---------------------------- MODULE Spec2Model ----------------------------
(***************************************************************************)
(* A model of the function-expression layer of polars-lazy:                *)
(*   dsl/function_expr/mod.rs  the FunctionExpr catalog, its Display and   *)
(*                             its conversion into a SeriesUdf handle      *)
(*   dsl/dt.rs                 the DateLikeNameSpace adapter               *)
(*                                                                         *)
(* Four specifications share the module's variables:                       *)
(*   Spec          the catalog under a matrix of cargo features            *)
(*   SpecHandles   allocation and sharing of handles (Arc identity)        *)
(*   SpecTemporal  the time-unit / time-zone closures of dt.rs             *)
(*   SpecThreads   one handle invoked by several threads at once           *)
(***************************************************************************)
EXTENDS Integers, Sequences, FiniteSets, TLC

VARIABLES
    features,   \* the cargo features the crate is compiled with
    expr,       \* the expression built by the namespace adapter
    func,       \* the FunctionExpr value at hand (NoFunc: none yet)
    name,       \* what Display::fmt gave for func (NoResult: not asked)
    handle,     \* what From<FunctionExpr> gave for func (NoResult: not asked)
    slice,      \* the &mut [Series] a handle is called with
    ret,        \* what the last call of a handle returned
    heap,       \* number of Arc allocations made so far
    handles,    \* the SpecialEq<Arc<dyn SeriesUdf>> values alive
    origin,     \* per element of handles: the conversion that allocated it
    column,     \* the Series the temporal pipeline started from
    input,      \* the Series the last dt call was evaluated on, after the call
    current,    \* the Series after the calls in trace
    dtype,      \* the dtype the schema predicts for current
    trace,      \* the dt calls applied so far
    udf,        \* the closure inside the Arc that the threads share
    threads,    \* per thread: where its invocation stands, and its locals
    overlap     \* some invocation ran its kernel while another was in flight

vars == <<features, expr, func, name, handle, slice, ret, heap, handles,
          origin, column, input, current, dtype, trace, udf, threads,
          overlap>>

catalogVars == <<features, expr, func, name, handle, slice, ret>>
handleVars == <<heap, handles, origin>>
temporalVars == <<column, input, current, dtype, trace>>
threadVars == <<udf, threads, overlap>>

-----------------------------------------------------------------------------
(* Bounds of the model *)

\* feature sets within this many flags of "all enabled" are explored
MaxDisabled == 2
\* u64 hash seeds range over 0..MaxSeed
MaxSeed == 1
\* i64 periods / indices range over -MaxPeriods..MaxPeriods
MaxPeriods == 1
\* usize parameters (window_size, k, width, group_index) range over 1..MaxSize
MaxSize == 2
\* AnyValue clip bounds range over 0..MaxAny
MaxAny == 1
\* at most this many handles are kept alive at once
MaxHandles == 3
\* a handle is called with a slice of at most this many Series
MaxSlice == 2
\* a column holds at most this many values
MaxLen == 2
\* at most this many dt calls are chained
MaxCalls == 2
\* this many threads invoke one handle
MaxThreads == 2

Seeds == 0..MaxSeed
Periods == (0 - MaxPeriods)..MaxPeriods
Sizes == 1..MaxSize
AnyValues == 0..MaxAny
Strs == {"a", "b"}

-----------------------------------------------------------------------------
(* cfg predicates: a disjunction of conjunctions of feature names *)

Always == {{}}
Feature(f) == {{f}}
AnyOf(f, g) == {{f}, {g}}
AllOf(f, g) == {{f, g}}
\* both a and b must hold (nested #[cfg]s)
Both(a, b) == {x \cup y : x \in a, y \in b}

CfgOn(cfg, F) == \E c \in cfg : c \subseteq F

Features ==
    {"arg_where", "round_series", "temporal", "is_in", "list", "rolling_window",
     "moment", "row_hash", "search_sorted", "sign", "strings", "dtype-struct",
     "date_offset", "trigonometry", "top_k", "string_justify", "concat_str",
     "regex", "dtype-duration"}

FeatureSets == {Features \ D : D \in {d \in SUBSET Features : Cardinality(d) <= MaxDisabled}}


-----------------------------------------------------------------------------
(* mod.rs lines 1-50: the feature-gated modules and imports *)

mod_arg_where == Feature("arg_where")
mod_clip == Feature("round_series")
mod_datetime == Feature("temporal")
mod_dispatch == Always
mod_fill_null == Always
mod_is_in == Feature("is_in")
mod_list_only_list == Feature("list")
mod_list == AnyOf("is_in", "list")
mod_nan == Always
mod_pow == Always
mod_rolling == AllOf("rolling_window", "moment")
mod_row_hash == Feature("row_hash")
mod_search_sorted == Feature("search_sorted")
mod_shift_and_fill == Always
mod_sign == Feature("sign")
mod_strings == Feature("strings")
mod_struct_ == Feature("dtype-struct")
mod_temporal == AnyOf("temporal", "date_offset")
mod_trigonometry == Feature("trigonometry")

\* `use` of a sub-catalog type: its own cfg, and the module it comes from
use_ListFunction == Both(Feature("list"), mod_list)
use_TemporalFunction == Both(Feature("temporal"), mod_datetime)
use_NanFunction == mod_nan
use_StringFunction == Both(Feature("strings"), mod_strings)
use_StructFunction == Both(Feature("dtype-struct"), mod_struct_)
use_TrigonometricFunction == Both(Feature("trigonometry"), mod_trigonometry)

\* the cfg under which a name used inside mod.rs resolves
ItemCfg(item) ==
    CASE item = "arg_where" -> mod_arg_where
      [] item = "clip" -> mod_clip
      [] item = "datetime" -> mod_datetime
      [] item = "dispatch" -> mod_dispatch
      [] item = "fill_null" -> mod_fill_null
      [] item = "is_in" -> mod_is_in
      [] item = "list" -> mod_list
      [] item = "nan" -> mod_nan
      [] item = "pow" -> mod_pow
      [] item = "rolling" -> mod_rolling
      [] item = "row_hash" -> mod_row_hash
      [] item = "search_sorted" -> mod_search_sorted
      [] item = "shift_and_fill" -> mod_shift_and_fill
      [] item = "sign" -> mod_sign
      [] item = "strings" -> mod_strings
      [] item = "struct_" -> mod_struct_
      [] item = "temporal" -> mod_temporal
      [] item = "trigonometry" -> mod_trigonometry
      [] item = "ListFunction" -> use_ListFunction
      [] item = "TemporalFunction" -> use_TemporalFunction
      [] item = "NanFunction" -> use_NanFunction
      [] item = "StringFunction" -> use_StringFunction
      [] item = "StructFunction" -> use_StructFunction
      [] item = "TrigonometricFunction" -> use_TrigonometricFunction
      \* the impl blocks of lines 331-332 and 382-383
      [] item = "From<StringFunction>" -> Feature("strings")
      [] item = "From<TemporalFunction>" -> Feature("temporal")
      \* impl From<NanFunction> lives in nan.rs
      [] item = "From<NanFunction>" -> mod_nan

-----------------------------------------------------------------------------
(* mod.rs lines 53-112: enum FunctionExpr *)

V(tag, cfg, refs) == [tag |-> tag, cfg |-> cfg, refs |-> refs]

FunctionExprDecl ==
    << V("NullCount", Always, {}),
       V("Pow", Always, {}),
       V("Hash", Feature("row_hash"), {}),
       V("IsIn", Feature("is_in"), {}),
       V("ArgWhere", Feature("arg_where"), {}),
       V("SearchSorted", Feature("search_sorted"), {}),
       V("StringExpr", Feature("strings"), {"StringFunction"}),
       V("TemporalExpr", Feature("temporal"), {"TemporalFunction"}),
       V("DateOffset", Feature("date_offset"), {}),
       V("Trigonometry", Feature("trigonometry"), {"TrigonometricFunction"}),
       V("Sign", Feature("sign"), {}),
       V("FillNull", Always, {}),
       V("ListContains", Feature("is_in"), {}),
       V("RollingSkew", AllOf("rolling_window", "moment"), {}),
       V("ShiftAndFill", Always, {}),
       V("Nan", Always, {"NanFunction"}),
       V("Clip", Feature("round_series"), {}),
       V("ListExpr", Feature("list"), {"ListFunction"}),
       V("StructExpr", Feature("dtype-struct"), {"StructFunction"}),
       V("TopK", Feature("top_k"), {}),
       V("Shift", Always, {}),
       V("Reverse", Always, {}),
       V("IsNull", Always, {}),
       V("IsNotNull", Always, {}),
       V("Not", Always, {}),
       V("IsUnique", Always, {}),
       V("IsDuplicated", Always, {}) >>

\* the variants of a declaration that exist under the features F
Variants(decl, F) == {decl[i].tag : i \in {j \in DOMAIN decl : CfgOn(decl[j].cfg, F)}}

\* a value of an enum: its variant and the variant's fields
Val(tag, fields) == [fn |-> tag, of |-> fields]
Unit(tag) == Val(tag, <<>>)

TimeUnits == {"ns", "us", "ms"}
\* Option<T>: <<>> is None, <<v>> is Some(v)
Option(S) == {<<>>} \cup {<<v>> : v \in S}
None == <<>>
IsSome(o) == o # <<>>

\* enum TemporalFunction, as matched in lines 386-400
TemporalFunctionDecl ==
    << V("Year", Always, {}), V("IsoYear", Always, {}), V("Month", Always, {}),
       V("Quarter", Always, {}), V("Week", Always, {}), V("WeekDay", Always, {}),
       V("Day", Always, {}), V("OrdinalDay", Always, {}), V("Hour", Always, {}),
       V("Minute", Always, {}), V("Second", Always, {}),
       V("NanoSecond", Always, {}), V("TimeStamp", Always, {}) >>

\* enum StringFunction (strings.rs), gated as its arms of lines 336-377 are
StringFunctionDecl ==
    << V("Contains", Always, {}), V("EndsWith", Always, {}),
       V("StartsWith", Always, {}), V("Extract", Always, {}),
       V("ExtractAll", Always, {}), V("CountMatch", Always, {}),
       V("Zfill", Feature("string_justify"), {}),
       V("LJust", Feature("string_justify"), {}),
       V("RJust", Feature("string_justify"), {}),
       V("Strptime", Feature("temporal"), {}),
       V("ConcatVertical", Feature("concat_str"), {}),
       V("ConcatHorizontal", Feature("concat_str"), {}),
       V("Replace", Feature("regex"), {}),
       V("Uppercase", Always, {}), V("Lowercase", Always, {}) >>

\* enum ListFunction, as matched in lines 303-306
ListFunctionDecl == << V("Concat", Always, {}) >>

\* enum StructFunction, as matched in lines 310-314
StructFunctionDecl == << V("FieldByIndex", Always, {}), V("FieldByName", Always, {}) >>

\* enum TrigonometricFunction (trigonometry.rs)
TrigonometricFunctionDecl ==
    << V("Sin", Always, {}), V("Cos", Always, {}), V("Tan", Always, {}),
       V("ArcSin", Always, {}), V("ArcCos", Always, {}), V("ArcTan", Always, {}),
       V("Sinh", Always, {}), V("Cosh", Always, {}), V("Tanh", Always, {}) >>

\* enum NanFunction (nan.rs)
NanFunctionDecl == << V("IsNan", Always, {}), V("IsNotNan", Always, {}), V("DropNans", Always, {}) >>

\* the types a FillNull supertype is drawn from
SuperTypes == {"Int64", "Float64", "Utf8"}
\* polars_time Duration values of offset_by, by their string form
Durations == {"1mo", "1d"}

\* the values of one variant: every choice of its fields
FieldsOf(tag) ==
    CASE tag = "Hash" -> [k0 : Seeds, k1 : Seeds, k2 : Seeds, k3 : Seeds]
      [] tag = "DateOffset" -> [offset : Durations]
      [] tag = "FillNull" -> [super_type : SuperTypes]
      [] tag = "RollingSkew" -> [window_size : Sizes, bias : BOOLEAN]
      [] tag = "ShiftAndFill" -> [periods : Periods]
      [] tag = "Clip" -> [min : Option(AnyValues), max : Option(AnyValues)]
      [] tag = "TopK" -> [k : Sizes, reverse : BOOLEAN]
      [] tag = "Shift" -> [periods : Periods]
      [] tag = "TimeStamp" -> [tu : TimeUnits]
      [] tag = "Contains" -> [pat : Strs, literal : BOOLEAN]
      [] tag = "EndsWith" -> [sub : Strs]
      [] tag = "StartsWith" -> [sub : Strs]
      [] tag = "Extract" -> [pat : Strs, group_index : Sizes]
      [] tag = "ExtractAll" -> [pat : Strs]
      [] tag = "CountMatch" -> [pat : Strs]
      [] tag = "Zfill" -> [alignment : Sizes]
      [] tag = "LJust" -> [width : Sizes, fillchar : Strs]
      [] tag = "RJust" -> [width : Sizes, fillchar : Strs]
      [] tag = "Strptime" -> [options : Strs]
      [] tag = "ConcatVertical" -> [delimiter : Strs]
      [] tag = "ConcatHorizontal" -> [delimiter : Strs]
      [] tag = "Replace" -> [all : BOOLEAN, literal : BOOLEAN]
      [] tag = "FieldByIndex" -> [index : Periods]
      [] tag = "FieldByName" -> [name : Strs]
      [] OTHER -> {<<>>}

ValuesOf(decl, F) == UNION {{Val(t, p) : p \in FieldsOf(t)} : t \in Variants(decl, F)}

\* the declaration of the sub-catalog a variant wraps (<<>>: it wraps none)
SubDecl(tag) ==
    CASE tag = "StringExpr" -> StringFunctionDecl
      [] tag = "TemporalExpr" -> TemporalFunctionDecl
      [] tag = "Trigonometry" -> TrigonometricFunctionDecl
      [] tag = "Nan" -> NanFunctionDecl
      [] tag = "ListExpr" -> ListFunctionDecl
      [] tag = "StructExpr" -> StructFunctionDecl
      [] OTHER -> <<>>

IsNested(tag) == SubDecl(tag) # <<>>

\* every FunctionExpr value that can be written down under the features F
FunctionExprs(F) ==
    UNION {IF IsNested(t)
              THEN {Val(t, s) : s \in ValuesOf(SubDecl(t), F)}
              ELSE {Val(t, p) : p \in FieldsOf(t)}
           : t \in Variants(FunctionExprDecl, F)}

NoFunc == [fn |-> "", of |-> <<>>]
NoResult == [status |-> "None"]
Ok(v) == [status |-> "Ok", val |-> v]
Panic(msg) == [status |-> "Panic", val |-> msg]

NoArm == [status |-> "NoArm"]

-----------------------------------------------------------------------------
(* mod.rs lines 114-168: impl Display for FunctionExpr *)

D(pat, cfg, write) == [pat |-> pat, cfg |-> cfg, write |-> write]

\* the arms in source order; "{}" writes the wrapped value's own Display,
\* "match" is the inner match of the Clip arm
DisplayArms ==
    << D("NullCount", Always, "null_count"),
       D("Pow", Always, "pow"),
       D("Hash", Feature("row_hash"), "hash"),
       D("IsIn", Feature("is_in"), "is_in"),
       D("ArgWhere", Feature("arg_where"), "arg_where"),
       D("SearchSorted", Feature("search_sorted"), "search_sorted"),
       D("StringExpr", Feature("strings"), "{}"),
       D("TemporalExpr", Feature("temporal"), "{}"),
       D("DateOffset", Feature("date_offset"), "dt.offset_by"),
       D("Trigonometry", Feature("trigonometry"), "{}"),
       D("Sign", Feature("sign"), "sign"),
       D("FillNull", Always, "fill_null"),
       D("ListContains", Feature("is_in"), "arr.contains"),
       D("RollingSkew", AllOf("rolling_window", "moment"), "rolling_skew"),
       D("ShiftAndFill", Always, "shift_and_fill"),
       D("Nan", Always, "nan"),
       D("Clip", Feature("round_series"), "match"),
       D("ListExpr", Feature("list"), "{}"),
       D("StructExpr", Feature("dtype-struct"), "{}"),
       D("TopK", Feature("top_k"), "top_k"),
       D("Shift", Always, "shift"),
       D("Reverse", Always, "reverse"),
       D("Not", Always, "is_not"),
       D("IsNull", Always, "is_null"),
       D("IsNotNull", Always, "is_not_null"),
       D("IsUnique", Always, "is_unique"),
       D("IsDuplicated", Always, "is_duplicated") >>

\* the arms of a match that exist under F and whose pattern is the variant tag
Hits(arms, tag, F) == {i \in DOMAIN arms : CfgOn(arms[i].cfg, F) /\ arms[i].pat = tag}
First(S) == CHOOSE i \in S : \A j \in S : i <= j

\* lines 147-152: the inner match of the Clip arm
fmt_Clip_wildcard(min, max) ==
    CASE IsSome(min) /\ IsSome(max) -> Ok("clip")
      [] ~IsSome(min) /\ IsSome(max) -> Ok("clip_max")
      [] IsSome(min) /\ ~IsSome(max) -> Ok("clip_min")
      [] OTHER -> Ok("clip")

fmt_Clip_swapped(min, max) ==
    CASE IsSome(min) /\ IsSome(max) -> Ok("clip")
      [] ~IsSome(min) /\ IsSome(max) -> Ok("clip_min")
      [] IsSome(min) /\ ~IsSome(max) -> Ok("clip_max")
      [] OTHER -> Panic("internal error: entered unreachable code")

fmt_Clip(min, max) ==
    CASE IsSome(min) /\ IsSome(max) -> Ok("clip")
      [] ~IsSome(min) /\ IsSome(max) -> Ok("clip_max")
      [] IsSome(min) /\ ~IsSome(max) -> Ok("clip_min")
      [] OTHER -> Panic("internal error: entered unreachable code")

\* Display of the sub-catalogs (strings.rs, datetime.rs, trigonometry.rs,
\* list.rs, struct_.rs): one name per variant
SubNames ==
    [Contains |-> "str.contains", EndsWith |-> "str.ends_with",
     StartsWith |-> "str.starts_with", Extract |-> "str.extract",
     ExtractAll |-> "str.extract_all", CountMatch |-> "str.count_match",
     Zfill |-> "str.zfill", LJust |-> "str.ljust", RJust |-> "str.rjust",
     Strptime |-> "str.strptime", ConcatVertical |-> "str.concat_vertical",
     ConcatHorizontal |-> "str.concat_horizontal", Replace |-> "str.replace",
     Uppercase |-> "str.uppercase", Lowercase |-> "str.lowercase",
     Year |-> "year", IsoYear |-> "iso_year", Month |-> "month",
     Quarter |-> "quarter", Week |-> "week", WeekDay |-> "weekday",
     Day |-> "day", OrdinalDay |-> "ordinal_day", Hour |-> "hour",
     Minute |-> "minute", Second |-> "second", NanoSecond |-> "nanosecond",
     TimeStamp |-> "dt.timestamp",
     Sin |-> "sin", Cos |-> "cos", Tan |-> "tan", ArcSin |-> "arcsin",
     ArcCos |-> "arccos", ArcTan |-> "arctan", Sinh |-> "sinh",
     Cosh |-> "cosh", Tanh |-> "tanh",
     Concat |-> "arr.concat",
     FieldByIndex |-> "struct.field_by_index",
     FieldByName |-> "struct.field_by_name"]

SubDisplay(sub) == Ok(SubNames[sub.fn])

\* Display::fmt(&func) in a crate built with the features F
fmt(f, F) ==
    LET hits == Hits(DisplayArms, f.fn, F) IN
    IF hits = {} THEN NoArm
    ELSE LET arm == DisplayArms[First(hits)] IN
         CASE arm.write = "{}" -> SubDisplay(f.of)
           [] arm.write = "match" -> fmt_Clip(f.of.min, f.of.max)
           [] OTHER -> Ok(arm.write)

-----------------------------------------------------------------------------
(* mod.rs lines 170-402: the conversion into a SeriesUdf *)

A(pat, cfg, macro, call, refs) ==
    [pat |-> pat, cfg |-> cfg, macro |-> macro, call |-> call, refs |-> refs]

\* lines 237-327, in source order; macro "into" hands the wrapped value to
\* its own From impl, "match" is an inner match on the wrapped value
FromArms ==
    << A("NullCount", Always, "wrap!", "Series::null_count", {}),
       A("Pow", Always, "wrap!", "pow::pow", {"pow"}),
       A("Hash", Feature("row_hash"), "map!", "row_hash::row_hash", {"row_hash"}),
       A("IsIn", Feature("is_in"), "wrap!", "is_in::is_in", {"is_in"}),
       A("ArgWhere", Feature("arg_where"), "wrap!", "arg_where::arg_where", {"arg_where"}),
       A("SearchSorted", Feature("search_sorted"), "wrap!",
         "search_sorted::search_sorted_impl", {"search_sorted"}),
       A("StringExpr", Feature("strings"), "into", "", {"From<StringFunction>"}),
       A("TemporalExpr", Feature("temporal"), "into", "", {"From<TemporalFunction>"}),
       A("DateOffset", Feature("date_offset"), "map_owned!", "temporal::date_offset",
         {"temporal"}),
       A("Trigonometry", Feature("trigonometry"), "map!",
         "trigonometry::apply_trigonometric_function", {"trigonometry"}),
       A("Sign", Feature("sign"), "map!", "sign::sign", {"sign"}),
       A("FillNull", Always, "map_as_slice!", "fill_null::fill_null", {"fill_null"}),
       A("ListContains", Feature("is_in"), "wrap!", "list::contains", {"list"}),
       A("RollingSkew", AllOf("rolling_window", "moment"), "map!",
         "rolling::rolling_skew", {"rolling"}),
       A("ShiftAndFill", Always, "map_as_slice!", "shift_and_fill::shift_and_fill",
         {"shift_and_fill"}),
       A("Nan", Always, "into", "", {"From<NanFunction>"}),
       A("Clip", Feature("round_series"), "map_owned!", "clip::clip", {"clip"}),
       A("ListExpr", Feature("list"), "match", "", {"ListFunction", "list"}),
       A("StructExpr", Feature("dtype-struct"), "match", "", {"StructFunction", "struct_"}),
       A("TopK", Feature("top_k"), "map!", "top_k", {}),
       A("Shift", Always, "map!", "dispatch::shift", {"dispatch"}),
       A("Reverse", Always, "map!", "dispatch::reverse", {"dispatch"}),
       A("IsNull", Always, "map!", "dispatch::is_null", {"dispatch"}),
       A("IsNotNull", Always, "map!", "dispatch::is_not_null", {"dispatch"}),
       A("Not", Always, "map!", "dispatch::is_not", {"dispatch"}),
       A("IsUnique", Always, "map!", "dispatch::is_unique", {"dispatch"}),
       A("IsDuplicated", Always, "map!", "dispatch::is_duplicated", {"dispatch"}) >>

\* lines 335-378: impl From<StringFunction>
StringFunctionArms ==
    << A("Contains", Always, "map!", "strings::contains", {"strings"}),
       A("EndsWith", Always, "map!", "strings::ends_with", {"strings"}),
       A("StartsWith", Always, "map!", "strings::starts_with", {"strings"}),
       A("Extract", Always, "map!", "strings::extract", {"strings"}),
       A("ExtractAll", Always, "map!", "strings::extract_all", {"strings"}),
       A("CountMatch", Always, "map!", "strings::count_match", {"strings"}),
       A("Zfill", Feature("string_justify"), "map!", "strings::zfill", {"strings"}),
       A("LJust", Feature("string_justify"), "map!", "strings::ljust", {"strings"}),
       A("RJust", Feature("string_justify"), "map!", "strings::rjust", {"strings"}),
       A("Strptime", Feature("temporal"), "map!", "strings::strptime", {"strings"}),
       A("ConcatVertical", Feature("concat_str"), "map!", "strings::concat", {"strings"}),
       A("ConcatHorizontal", Feature("concat_str"), "map_as_slice!",
         "strings::concat_hor", {"strings"}),
       A("Replace", Feature("regex"), "map_as_slice!", "strings::replace", {"strings"}),
       A("Uppercase", Always, "map!", "strings::uppercase", {"strings"}),
       A("Lowercase", Always, "map!", "strings::lowercase", {"strings"}) >>

TemporalFunctionArms_week_weekday ==
    << A("Year", Always, "map!", "datetime::year", {"datetime"}),
       A("IsoYear", Always, "map!", "datetime::iso_year", {"datetime"}),
       A("Month", Always, "map!", "datetime::month", {"datetime"}),
       A("Quarter", Always, "map!", "datetime::quarter", {"datetime"}),
       A("Week", Always, "map!", "datetime::weekday", {"datetime"}),
       A("WeekDay", Always, "map!", "datetime::week", {"datetime"}),
       A("Day", Always, "map!", "datetime::day", {"datetime"}),
       A("OrdinalDay", Always, "map!", "datetime::ordinal_day", {"datetime"}),
       A("Hour", Always, "map!", "datetime::hour", {"datetime"}),
       A("Minute", Always, "map!", "datetime::minute", {"datetime"}),
       A("Second", Always, "map!", "datetime::second", {"datetime"}),
       A("NanoSecond", Always, "map!", "datetime::nanosecond", {"datetime"}),
       A("TimeStamp", Always, "map!", "datetime::timestamp", {"datetime"}) >>

\* lines 386-400: impl From<TemporalFunction>
TemporalFunctionArms ==
    << A("Year", Always, "map!", "datetime::year", {"datetime"}),
       A("IsoYear", Always, "map!", "datetime::iso_year", {"datetime"}),
       A("Month", Always, "map!", "datetime::month", {"datetime"}),
       A("Quarter", Always, "map!", "datetime::quarter", {"datetime"}),
       A("Week", Always, "map!", "datetime::week", {"datetime"}),
       A("WeekDay", Always, "map!", "datetime::weekday", {"datetime"}),
       A("Day", Always, "map!", "datetime::day", {"datetime"}),
       A("OrdinalDay", Always, "map!", "datetime::ordinal_day", {"datetime"}),
       A("Hour", Always, "map!", "datetime::hour", {"datetime"}),
       A("Minute", Always, "map!", "datetime::minute", {"datetime"}),
       A("Second", Always, "map!", "datetime::second", {"datetime"}),
       A("NanoSecond", Always, "map!", "datetime::nanosecond", {"datetime"}),
       A("TimeStamp", Always, "map!", "datetime::timestamp", {"datetime"}) >>

\* lines 304-306: the inner match of the ListExpr arm
ListFunctionArms == << A("Concat", Always, "wrap!", "list::concat", {"list"}) >>

\* lines 311-314: the inner match of the StructExpr arm
StructFunctionArms ==
    << A("FieldByIndex", Always, "map!", "struct_::get_by_index", {"struct_"}),
       A("FieldByName", Always, "map!", "struct_::get_by_name", {"struct_"}) >>

\* impl From<NanFunction> (nan.rs)
NanFunctionArms ==
    << A("IsNan", Always, "map!", "nan::is_nan", {"nan"}),
       A("IsNotNan", Always, "map!", "nan::is_not_nan", {"nan"}),
       A("DropNans", Always, "map!", "nan::drop_nans", {"nan"}) >>

\* the match a wrapped value of the variant is handed to
SubArms(tag) ==
    CASE tag = "StringExpr" -> StringFunctionArms
      [] tag = "TemporalExpr" -> TemporalFunctionArms
      [] tag = "Nan" -> NanFunctionArms
      [] tag = "ListExpr" -> ListFunctionArms
      [] tag = "StructExpr" -> StructFunctionArms
      [] OTHER -> <<>>

\* the closure a macro builds: the kernel it calls, the way it passes the
\* slice (its macro), and the values it moved in
Closure(arm, fields) == [call |-> arm.call, captured |-> fields, macro |-> arm.macro]

\* the arm a value takes through a match (NoArm: no arm takes it)
Select(arms, v, F) ==
    LET hits == Hits(arms, v.fn, F) IN
    IF hits = {} THEN NoArm ELSE Ok(arms[First(hits)])

\* From<FunctionExpr>::from(func), before the closure is put in an Arc
from(f, F) ==
    LET top == Select(FromArms, f, F) IN
    IF top.status # "Ok" THEN NoArm
    ELSE IF top.val.macro \in {"into", "match"}
         THEN LET sub == Select(SubArms(f.fn), f.of, F) IN
              IF sub.status # "Ok" THEN NoArm
              ELSE Ok(Closure(sub.val, f.of.of))
         ELSE Ok(Closure(top.val, f.of))

-----------------------------------------------------------------------------
(* dt.rs: DateLikeNameSpace, the adapter that builds expressions *)

\* the receiver: DateLikeNameSpace(col("a"))
Receiver == [node |-> "Column", name |-> "a"]

\* Expr::map_private (dsl/mod.rs): the apply-function node that carries a
\* FunctionExpr
map_private(e, function) ==
    [node |-> "Function", input |-> <<e>>, function |-> function]

\* Expr::map (dsl/mod.rs): the node that carries an anonymous closure and
\* its output-type rule; the closure is handed the first Series of the slice
Expr_map(e, function, output_type) ==
    [node |-> "AnonymousFunction", input |-> <<e>>, function |-> function,
     output_type |-> output_type, fmt_str |-> "map"]

with_fmt(e, str) == [e EXCEPT !.fmt_str = str]

\* a closure written in dt.rs: which one, and the values it moved in
DtClosure(which, fields) == [call |-> which, captured |-> fields, macro |-> "Expr::map"]

\* GetOutput (dsl/mod.rs)
from_type(dt) == [rule |-> "from_type", dtype |-> dt]
same_type == [rule |-> "same_type"]
map_dtype(which, fields) == [rule |-> "map_dtype", by |-> which, captured |-> fields]

\* lines 12-18
strftime(e, format) ==
    with_fmt(Expr_map(e, DtClosure("strftime", [fmt |-> format]), from_type("Utf8")),
             "strftime")

\* lines 21-43
cast_time_unit(e, tu) ==
    Expr_map(e, DtClosure("cast_time_unit", [tu |-> tu]),
             map_dtype("cast_time_unit", [tu |-> tu]))

\* lines 46-66
with_time_unit(e, tu) ==
    Expr_map(e, DtClosure("with_time_unit", [tu |-> tu]), same_type)

\* lines 69-83
with_time_zone(e, tz) ==
    Expr_map(e, DtClosure("with_time_zone", [tz |-> tz]), same_type)

\* lines 86-89
year(e) == map_private(e, Val("TemporalExpr", Unit("Year")))

\* lines 93-96
iso_year(e) == map_private(e, Val("TemporalExpr", Unit("IsoYear")))

\* lines 99-102
month(e) == map_private(e, Val("TemporalExpr", Unit("Month")))

\* lines 106-109
quarter(e) == map_private(e, Val("TemporalExpr", Unit("Quarter")))

\* lines 116-119
week(e) == map_private(e, Val("TemporalExpr", Unit("Week")))

\* lines 125-128
weekday(e) == map_private(e, Val("TemporalExpr", Unit("WeekDay")))

\* lines 131-134
day(e) == map_private(e, Val("TemporalExpr", Unit("Day")))

\* lines 136-139
ordinal_day(e) == map_private(e, Val("TemporalExpr", Unit("OrdinalDay")))

\* lines 141-144
hour(e) == map_private(e, Val("TemporalExpr", Unit("Hour")))

\* lines 146-149
minute(e) == map_private(e, Val("TemporalExpr", Unit("Minute")))

\* lines 152-155
second(e) == map_private(e, Val("TemporalExpr", Unit("Second")))

\* lines 157-160
nanosecond(e) == map_private(e, Val("TemporalExpr", Unit("NanoSecond")))

\* lines 162-165
timestamp(e, tu) == map_private(e, Val("TemporalExpr", Val("TimeStamp", [tu |-> tu])))

\* lines 169-172
offset_by(e, by) == map_private(e, Val("DateOffset", [offset |-> by]))

\* Option<TimeZone> values
TimeZones == Option({"UTC", "CET"})
\* strftime formats
Formats == {"%Y", "%H:%M"}

\* a call of the adapter: the method and its argument (<<>>: it takes none)
Call(method, arg) == [call |-> method, arg |-> arg]

\* the methods of dt.rs that exist under F: the file imports TemporalFunction
\* (line 4), which mod.rs exports under "temporal"; offset_by is itself gated
NoArgMethods ==
    {"year", "iso_year", "month", "quarter", "week", "weekday", "day",
     "ordinal_day", "hour", "minute", "second", "nanosecond"}

DtCalls(F) ==
    IF ~CfgOn(use_TemporalFunction, F) THEN {}
    ELSE {Call(m, <<>>) : m \in NoArgMethods}
         \cup {Call(m, <<tu>>) : m \in {"timestamp", "cast_time_unit", "with_time_unit"},
                                 tu \in TimeUnits}
         \cup {Call("with_time_zone", <<tz>>) : tz \in TimeZones}
         \cup {Call("strftime", <<f>>) : f \in Formats}
         \cup (IF CfgOn(Feature("date_offset"), F)
                  THEN {Call("offset_by", <<by>>) : by \in Durations}
                  ELSE {})

\* the expression a call of the adapter returns
Apply(c, e) ==
    CASE c.call = "strftime" -> strftime(e, c.arg[1])
      [] c.call = "cast_time_unit" -> cast_time_unit(e, c.arg[1])
      [] c.call = "with_time_unit" -> with_time_unit(e, c.arg[1])
      [] c.call = "with_time_zone" -> with_time_zone(e, c.arg[1])
      [] c.call = "year" -> year(e)
      [] c.call = "iso_year" -> iso_year(e)
      [] c.call = "month" -> month(e)
      [] c.call = "quarter" -> quarter(e)
      [] c.call = "week" -> week(e)
      [] c.call = "weekday" -> weekday(e)
      [] c.call = "day" -> day(e)
      [] c.call = "ordinal_day" -> ordinal_day(e)
      [] c.call = "hour" -> hour(e)
      [] c.call = "minute" -> minute(e)
      [] c.call = "second" -> second(e)
      [] c.call = "nanosecond" -> nanosecond(e)
      [] c.call = "timestamp" -> timestamp(e, c.arg[1])
      [] c.call = "offset_by" -> offset_by(e, c.arg[1])

-----------------------------------------------------------------------------
(* The catalog under the feature matrix *)

Init ==
    /\ features \in FeatureSets
    /\ func = NoFunc
    /\ name = NoResult
    /\ handle = NoResult
    /\ expr = Receiver
    /\ slice = <<>>
    /\ ret = NoResult
    /\ heap = 0
    /\ handles = <<>>
    /\ origin = <<>>
    /\ column = NoResult
    /\ input = NoResult
    /\ current = NoResult
    /\ dtype = NoResult
    /\ trace = <<>>
    /\ udf = NoResult
    /\ threads = <<>>
    /\ overlap = FALSE

\* a FunctionExpr value written down directly (the enum and its fields are pub)
Construct ==
    /\ func = NoFunc
    /\ expr = Receiver
    /\ \E f \in FunctionExprs(features) : func' = f
    /\ UNCHANGED <<features, expr, name, handle, slice, ret>>
    /\ UNCHANGED <<handleVars, temporalVars>>
    /\ UNCHANGED threadVars

\* col("a").dt().<method>(<arg>): the expression is built, and with it the
\* FunctionExpr it carries, if it carries one
Dt ==
    /\ func = NoFunc
    /\ expr = Receiver
    /\ \E c \in DtCalls(features) :
          /\ expr' = Apply(c, expr)
          /\ func' = IF expr'.node = "Function" THEN expr'.function ELSE NoFunc
          /\ trace' = <<c>>
    /\ UNCHANGED <<features, name, handle, slice, ret>>
    /\ UNCHANGED <<handleVars, column, input, current, dtype>>
    /\ UNCHANGED threadVars

\* format!("{}", func)
Fmt ==
    /\ func # NoFunc
    /\ name = NoResult
    /\ name' = fmt(func, features)
    /\ UNCHANGED <<features, expr, func, handle, slice, ret>>
    /\ UNCHANGED <<handleVars, temporalVars>>
    /\ UNCHANGED threadVars

\* func.into()
Into ==
    /\ func # NoFunc
    /\ handle = NoResult
    /\ handle' = from(func, features)
    /\ UNCHANGED <<features, expr, func, name, slice, ret>>
    /\ UNCHANGED <<handleVars, temporalVars>>
    /\ UNCHANGED threadVars

Next ==
    \/ Construct
    \/ Dt
    \/ Fmt
    \/ Into

Spec == Init /\ [][Next]_vars

-----------------------------------------------------------------------------
(* Properties of the catalog *)

ExactlyOne(arms, tag, F) == Cardinality(Hits(arms, tag, F)) = 1

\* every item an arm names resolves under F
RefsLive(arm, F) == \A r \in arm.refs : CfgOn(ItemCfg(r), F)

\* no arm compiled under F names a variant or an item that F leaves out
NoDangling(arms, decl, F) ==
    \A i \in DOMAIN arms :
        CfgOn(arms[i].cfg, F) =>
            /\ arms[i].pat \in Variants(decl, F)
            /\ \A r \in (IF "refs" \in DOMAIN arms[i] THEN arms[i].refs ELSE {}) :
                  CfgOn(ItemCfg(r), F)

\* the match the From arm of a variant goes on with (<<>>: none)
Delegates(tag, F) ==
    LET hits == Hits(FromArms, tag, F) IN
    IF hits # {} /\ FromArms[First(hits)].macro \in {"into", "match"}
       THEN SubArms(tag) ELSE <<>>

BareClip(f) == f.fn = "Clip" /\ ~IsSome(f.of.min) /\ ~IsSome(f.of.max)

C1_Dispatch(allowed) ==
    func # NoFunc =>
        /\ ExactlyOne(DisplayArms, func.fn, features)
        /\ ExactlyOne(FromArms, func.fn, features)
        /\ Delegates(func.fn, features) # <<>> =>
              /\ ExactlyOne(Delegates(func.fn, features), func.of.fn, features)
              /\ NoDangling(Delegates(func.fn, features), SubDecl(func.fn), features)
        /\ NoDangling(DisplayArms, FunctionExprDecl, features)
        /\ NoDangling(FromArms, FunctionExprDecl, features)
        /\ \A i \in DOMAIN FunctionExprDecl :
              CfgOn(FunctionExprDecl[i].cfg, features) => RefsLive(FunctionExprDecl[i], features)
        /\ name # NoResult => (name.status = "Ok" \/ name \in allowed)
        /\ handle # NoResult => handle.status = "Ok"

\* C1, as stated: under every feature set, for every FunctionExpr value the
\* features allow, Display and the conversion into a handle each take exactly
\* one arm and succeed, and no arm names a variant or module the features
\* leave out.
C1_Original == C1_Dispatch({})

\* C1, amended: the same, except that Display of Clip { min: None, max: None }
\* takes its one arm and aborts there as unreachable; the conversion succeeds
\* for every value, that one included.
C1_DispatchTotal ==
    /\ C1_Dispatch(IF BareClip(func)
                      THEN {Panic("internal error: entered unreachable code")}
                      ELSE {})
    /\ (BareClip(func) /\ name # NoResult) => name.status = "Panic"

\* ListContains converted in a crate built with is_in and without list: its
\* arm names mod list, which only the any(is_in, list) gate keeps
C1_Witness ==
    /\ "list" \notin features
    /\ "is_in" \in features
    /\ func = Unit("ListContains")
    /\ name = Ok("arr.contains")
    /\ handle.status = "Ok"
    /\ handle.val.call = "list::contains"

\* the values that differ from f in parameter values only
Siblings(f) ==
    IF IsNested(f.fn)
       THEN {Val(f.fn, Val(f.of.fn, p)) : p \in FieldsOf(f.of.fn)}
       ELSE IF f.fn = "Clip"
               THEN {Val(f.fn, p) : p \in {q \in FieldsOf("Clip") :
                                             /\ IsSome(q.min) = IsSome(f.of.min)
                                             /\ IsSome(q.max) = IsSome(f.of.max)}}
               ELSE {Val(f.fn, p) : p \in FieldsOf(f.fn)}

\* C2: the display name is decided by the variant alone, whatever the
\* parameter values; for Clip by which bounds are present: both "clip", only
\* min "clip_min", only max "clip_max".
C2_NameByVariant ==
    (func # NoFunc /\ name # NoResult /\ name.status = "Ok") =>
        /\ \A g \in Siblings(func) : fmt(g, features) = name
        /\ func.fn = "Shift" => name.val = "shift"
        /\ func.fn = "Hash" => name.val = "hash"
        /\ func.fn = "Clip" =>
              name.val = (CASE IsSome(func.of.min) /\ IsSome(func.of.max) -> "clip"
                            [] IsSome(func.of.min) /\ ~IsSome(func.of.max) -> "clip_min"
                            [] ~IsSome(func.of.min) /\ IsSome(func.of.max) -> "clip_max"
                            [] OTHER -> "")

\* a Clip with only its lower bound has been rendered, and it has a sibling
\* with another bound value
C2_Witness ==
    /\ func.fn = "Clip"
    /\ IsSome(func.of.min) /\ ~IsSome(func.of.max)
    /\ name = Ok("clip_min")
    /\ Cardinality(Siblings(func)) > 1

\* the FunctionExpr each variant-building method is documented to build
C9_Variant(c) ==
    CASE c.call = "timestamp" -> Val("TemporalExpr", Val("TimeStamp", [tu |-> c.arg[1]]))
      [] c.call = "offset_by" -> Val("DateOffset", [offset |-> c.arg[1]])
      [] c.call = "year" -> Val("TemporalExpr", Unit("Year"))
      [] c.call = "iso_year" -> Val("TemporalExpr", Unit("IsoYear"))
      [] c.call = "month" -> Val("TemporalExpr", Unit("Month"))
      [] c.call = "quarter" -> Val("TemporalExpr", Unit("Quarter"))
      [] c.call = "week" -> Val("TemporalExpr", Unit("Week"))
      [] c.call = "weekday" -> Val("TemporalExpr", Unit("WeekDay"))
      [] c.call = "day" -> Val("TemporalExpr", Unit("Day"))
      [] c.call = "ordinal_day" -> Val("TemporalExpr", Unit("OrdinalDay"))
      [] c.call = "hour" -> Val("TemporalExpr", Unit("Hour"))
      [] c.call = "minute" -> Val("TemporalExpr", Unit("Minute"))
      [] c.call = "second" -> Val("TemporalExpr", Unit("Second"))
      [] c.call = "nanosecond" -> Val("TemporalExpr", Unit("NanoSecond"))

\* the kernel of the same operation
C9_Kernel(c) ==
    CASE c.call = "timestamp" -> "datetime::timestamp"
      [] c.call = "offset_by" -> "temporal::date_offset"
      [] c.call = "year" -> "datetime::year"
      [] c.call = "iso_year" -> "datetime::iso_year"
      [] c.call = "month" -> "datetime::month"
      [] c.call = "quarter" -> "datetime::quarter"
      [] c.call = "week" -> "datetime::week"
      [] c.call = "weekday" -> "datetime::weekday"
      [] c.call = "day" -> "datetime::day"
      [] c.call = "ordinal_day" -> "datetime::ordinal_day"
      [] c.call = "hour" -> "datetime::hour"
      [] c.call = "minute" -> "datetime::minute"
      [] c.call = "second" -> "datetime::second"
      [] c.call = "nanosecond" -> "datetime::nanosecond"

AnonymousMethods == {"strftime", "cast_time_unit", "with_time_unit", "with_time_zone"}

-----------------------------------------------------------------------------
(* mod.rs lines 170-232: the macros, and handles at run time *)

\* Arc::new: a fresh allocation, told apart by its address
Arc_new(f, addr) == [arc |-> addr, f |-> f]

\* SpecialEq::new (dsl/mod.rs): a wrapper around the Arc
SpecialEq_new(a) == a

\* the handle is the same allocation whatever was converted before
wrap_interned(f, addr) == SpecialEq_new(Arc_new(f, 0))

\* lines 170-174, and the last line of map_as_slice!, map_owned! and map!:
\* SpecialEq::new(Arc::new(f))
wrap(f, addr) == SpecialEq_new(Arc_new(f, addr))

\* PartialEq for SpecialEq<Arc<T>> (dsl/mod.rs): Arc::ptr_eq
SpecialEq_eq(a, b) == a.arc = b.arc

\* a Series, as far as this layer reads it: name, dtype and physical values
Series(n, dt, vals) == [name |-> n, dtype |-> dt, values |-> vals]
Int64 == [kind |-> "Int64"]
\* Series::default(), what std::mem::take leaves behind
Series_default == Series("", Int64, <<>>)

SeriesPool == {Series("a", Int64, <<1>>), Series("b", Int64, <<2>>)}
Slices == UNION {[1..n -> SeriesPool] : n \in 0..MaxSlice}

\* a kernel of the sibling modules applied: only clip::clip is looked into,
\* whose neither-bound case is unreachable!()
KernelCall(call, arg, captured) ==
    IF call = "clip::clip" /\ ~IsSome(captured.min) /\ ~IsSome(captured.max)
       THEN Panic("internal error: entered unreachable code")
       ELSE Ok([kernel |-> call, input |-> arg, with |-> captured])

OutOfBounds == Panic("index out of bounds: the len is 0 but the index is 0")

\* the closure a macro wrote, called with the slice s: what it returns, and
\* the slice afterwards
Invoke(c, s) ==
    CASE c.macro = "map!" ->
            \* lines 216-219, 225-228: let s = &s[0]
            IF s = <<>> THEN [ret |-> OutOfBounds, slice |-> s]
            ELSE [ret |-> KernelCall(c.call, s[1], c.captured), slice |-> s]
      [] c.macro = "map_owned!" ->
            \* lines 194-196, 203-205: let s = std::mem::take(&mut s[0])
            IF s = <<>> THEN [ret |-> OutOfBounds, slice |-> s]
            ELSE [ret |-> KernelCall(c.call, s[1], c.captured),
                  slice |-> [s EXCEPT ![1] = Series_default]]
      [] c.macro = "map_as_slice!" ->
            \* lines 181-183: $func(s, args)
            [ret |-> KernelCall(c.call, s, c.captured), slice |-> s]
      [] c.macro = "wrap!" ->
            \* lines 239-242: the NullCount closure reads s[0]; the other
            \* wrapped functions take the slice
            IF c.call = "Series::null_count" /\ s = <<>>
               THEN [ret |-> OutOfBounds, slice |-> s]
               ELSE [ret |-> KernelCall(c.call, s, c.captured), slice |-> s]

InitHandles ==
    /\ features = Features
    /\ func \in FunctionExprs(Features)
    /\ name = NoResult
    /\ handle = NoResult
    /\ expr = Receiver
    /\ slice = <<>>
    /\ ret = NoResult
    /\ heap = 0
    /\ handles = <<>>
    /\ origin = <<>>
    /\ column = NoResult
    /\ input = NoResult
    /\ current = NoResult
    /\ dtype = NoResult
    /\ trace = <<>>
    /\ udf = NoResult
    /\ threads = <<>>
    /\ overlap = FALSE

\* func.clone().into(): one more conversion of the same value
Convert ==
    /\ Len(handles) < MaxHandles
    /\ LET c == from(func, features) IN
          /\ c.status = "Ok"
          /\ handles' = Append(handles, wrap(c.val, heap))
    /\ origin' = Append(origin, heap)
    /\ heap' = heap + 1
    /\ UNCHANGED <<catalogVars, temporalVars>>
    /\ UNCHANGED threadVars

\* handle.clone(): the Arc is shared, nothing is allocated
Share ==
    /\ Len(handles) < MaxHandles
    /\ \E i \in DOMAIN handles :
          /\ handles' = Append(handles, handles[i])
          /\ origin' = Append(origin, origin[i])
    /\ UNCHANGED <<heap, catalogVars, temporalVars>>
    /\ UNCHANGED threadVars

\* handle.call_udf(&mut slice)
CallUdf ==
    /\ ret = NoResult
    /\ \E i \in DOMAIN handles, s \in Slices :
          LET r == Invoke(handles[i].f, s) IN
          /\ ret' = r.ret
          /\ slice' = r.slice
    /\ UNCHANGED <<features, expr, func, name, handle>>
    /\ UNCHANGED <<handleVars, temporalVars>>
    /\ UNCHANGED threadVars

NextHandles ==
    \/ Fmt
    \/ Convert
    \/ Share
    \/ CallUdf

SpecHandles == InitHandles /\ [][NextHandles]_vars

\* C8: handles are equal exactly when they are the same allocation: every
\* conversion allocates, so two conversions of one FunctionExpr value give
\* unequal handles although they wrap the same closure, while a handle equals
\* itself and its shared copies.
C8_HandleIdentity ==
    \A i, j \in DOMAIN handles :
        /\ SpecialEq_eq(handles[i], handles[j]) <=> (origin[i] = origin[j])
        /\ handles[i].f = from(func, features).val
        /\ handles[i].f = handles[j].f

\* two conversions of the same value and a shared copy of the first
C8_Witness ==
    /\ Len(handles) = 3
    /\ origin = <<0, 1, 0>>
    /\ ~SpecialEq_eq(handles[1], handles[2])
    /\ SpecialEq_eq(handles[1], handles[3])
    /\ handles[1].f = handles[2].f

ClipNames == {Ok("clip"), Ok("clip_min"), Ok("clip_max")}

-----------------------------------------------------------------------------
(* mod.rs lines 176-232: one handle invoked by several threads.  The Arc is *)
(* shared, every thread brings a slice of its own; the steps of a closure   *)
(* of different threads interleave.                                         *)

Threads == 1..MaxThreads
ColumnNames == <<"a", "b", "c", "d">>

\* the slice thread t calls the handle with: n columns no other thread holds
Batch(t, n) == [i \in 1..n |-> Series(ColumnNames[i], Int64, <<10 * t + i>>)]

Idle == [pc |-> "idle", batch |-> <<>>, slice |-> <<>>, arg |-> NoResult,
         ret |-> NoResult]

\* the first statement of a closure, on the slice s: what it binds, and the
\* slice afterwards
Borrow(c, s) ==
    CASE c.macro = "map!" ->
            \* lines 216-217, 225-226: let s = &s[0]
            IF s = <<>> THEN [status |-> "Panic", ret |-> OutOfBounds, slice |-> s]
            ELSE [status |-> "Ok", arg |-> s[1], slice |-> s]
      [] c.macro = "map_owned!" ->
            \* lines 194-195, 203-204: let s = std::mem::take(&mut s[0])
            IF s = <<>> THEN [status |-> "Panic", ret |-> OutOfBounds, slice |-> s]
            ELSE [status |-> "Ok", arg |-> s[1],
                  slice |-> [s EXCEPT ![1] = Series_default]]
      [] c.macro = "map_as_slice!" ->
            \* lines 181-182: the slice itself is passed on
            [status |-> "Ok", arg |-> s, slice |-> s]
      [] c.macro = "wrap!" ->
            \* lines 239-240: the NullCount closure binds &s[0]; a wrapped
            \* function is handed the slice
            IF c.call = "Series::null_count" /\ s = <<>>
               THEN [status |-> "Panic", ret |-> OutOfBounds, slice |-> s]
               ELSE [status |-> "Ok", arg |-> s, slice |-> s]

\* min.take() for min.clone(): the first call moves the lower bound out of
\* the closure
Args_min_taken(c) ==
    [args |-> c.captured,
     captured |-> IF c.call = "clip::clip"
                     THEN [c.captured EXCEPT !.min = None]
                     ELSE c.captured]

\* $($args),* evaluated inside the closure: Copy values are copied, the
\* others are cloned (min.clone(), max.clone(), name.clone()) or borrowed
\* (&super_type); what the closure captured stays as it is
Args(c) == [args |-> c.captured, captured |-> c.captured]

InitThreads ==
    /\ features = Features
    /\ func \in FunctionExprs(Features)
    /\ name = NoResult
    /\ handle = NoResult
    /\ expr = Receiver
    /\ slice = <<>>
    /\ ret = NoResult
    /\ heap = 0
    /\ handles = <<>>
    /\ origin = <<>>
    /\ column = NoResult
    /\ input = NoResult
    /\ current = NoResult
    /\ dtype = NoResult
    /\ trace = <<>>
    /\ udf = NoResult
    /\ threads = [t \in Threads |-> Idle]
    /\ overlap = FALSE

\* func.into(): the handle all threads share
Build ==
    /\ udf = NoResult
    /\ LET c == from(func, features) IN
          /\ c.status = "Ok"
          /\ udf' = wrap(c.val, heap)
    /\ heap' = heap + 1
    /\ UNCHANGED <<catalogVars, handles, origin, temporalVars, threads, overlap>>

InFlight(t) == threads[t].pc \in {"entered", "borrowed"}

\* thread t calls the handle with a slice of its own
Enter(t) ==
    /\ udf # NoResult
    /\ threads[t].pc = "idle"
    /\ \E n \in 0..MaxSlice :
          threads' = [threads EXCEPT ![t] =
                         [pc |-> "entered", batch |-> Batch(t, n),
                          slice |-> Batch(t, n), arg |-> NoResult,
                          ret |-> NoResult]]
    /\ UNCHANGED <<catalogVars, handleVars, temporalVars, udf, overlap>>

\* thread t runs the first statement of the closure
Index(t) ==
    /\ threads[t].pc = "entered"
    /\ LET b == Borrow(udf.f, threads[t].slice) IN
          threads' = [threads EXCEPT ![t] =
                         IF b.status = "Panic"
                            THEN [@ EXCEPT !.pc = "done", !.ret = b.ret]
                            ELSE [@ EXCEPT !.pc = "borrowed", !.arg = b.arg,
                                           !.slice = b.slice]]
    /\ UNCHANGED <<catalogVars, handleVars, temporalVars, udf, overlap>>

\* thread t evaluates the arguments and calls the kernel
Kernel(t) ==
    /\ threads[t].pc = "borrowed"
    /\ LET a == Args(udf.f) IN
          /\ udf' = [udf EXCEPT !.f.captured = a.captured]
          /\ threads' = [threads EXCEPT ![t] =
                            [@ EXCEPT !.pc = "done",
                                      !.ret = KernelCall(udf.f.call,
                                                         threads[t].arg, a.args)]]
    /\ overlap' = (overlap \/ \E u \in Threads \ {t} : InFlight(u))
    /\ UNCHANGED <<catalogVars, handleVars, temporalVars>>

\* thread t drops its slice and is free to call again
Leave(t) ==
    /\ threads[t].pc = "done"
    /\ threads' = [threads EXCEPT ![t] = Idle]
    /\ UNCHANGED <<catalogVars, handleVars, temporalVars, udf, overlap>>

NextThreads ==
    \/ Build
    \/ \E t \in Threads : Enter(t)
    \/ \E t \in Threads : Index(t)
    \/ \E t \in Threads : Kernel(t)
    \/ \E t \in Threads : Leave(t)

SpecThreads == InitThreads /\ [][NextThreads]_vars

Built == from(func, features).val

\* C11: a handle holds no mutable state: what the closure captured when it
\* was built is never changed by an invocation, so however the invocations
\* of several threads on slices of their own interleave, a finished
\* invocation has returned, and left in its slice, what the same call run
\* alone gives; an invocation writes its own slice only: a map_owned! handle
\* (DateOffset, Clip) leaves Series::default() in place of the first column,
\* a map! handle leaves the slice as it was.
C11_NoSharedState ==
    udf # NoResult =>
        LET built == Built IN
        /\ udf.f = built
        /\ func.fn \in {"DateOffset", "Clip"} => built.macro = "map_owned!"
        /\ \A t \in Threads :
              LET th == threads[t]
                  alone == Invoke(built, th.batch) IN
              /\ th.pc = "done" => th.ret = alone.ret /\ th.slice = alone.slice
              /\ built.macro = "map!" => th.slice = th.batch
              /\ (built.macro = "map_owned!" /\ th.pc \in {"borrowed", "done"}
                    /\ th.batch # <<>>) =>
                    /\ th.slice = [th.batch EXCEPT ![1] = Series_default]
                    /\ th.arg = th.batch[1]

\* two threads went through a Clip handle with interleaved steps: both are
\* done, each holds the result for its own column, each lost the first column
\* of its own slice only
C11_Witness ==
    /\ func = Val("Clip", [min |-> <<0>>, max |-> <<1>>])
    /\ overlap
    /\ \A t \in {1, 2} :
          /\ threads[t].pc = "done"
          /\ threads[t].batch = Batch(t, 2)
          /\ threads[t].ret = Ok([kernel |-> "clip::clip",
                                  input |-> Batch(t, 2)[1],
                                  with |-> [min |-> <<0>>, max |-> <<1>>]])
          /\ threads[t].slice = <<Series_default, Batch(t, 2)[2]>>

-----------------------------------------------------------------------------
(* dt.rs lines 20-83: the time-unit and time-zone closures *)

Datetime(tu, tz) == [kind |-> "Datetime", tu |-> tu, tz |-> tz]
Duration(tu) == [kind |-> "Duration", tu |-> tu]
Utf8 == [kind |-> "Utf8"]
Date == [kind |-> "Date"]
Float64 == [kind |-> "Float64"]

\* DurationChunked exists only with "dtype-duration" (polars-core), so only
\* then can a Series have the dtype
DataTypes(F) ==
    {Datetime(tu, tz) : tu \in TimeUnits, tz \in TimeZones}
    \cup (IF "dtype-duration" \in F THEN {Duration(tu) : tu \in TimeUnits} ELSE {})
    \cup {Int64, Utf8, Date, Float64}

IsTemporal(dt) == dt.kind \in {"Datetime", "Duration"}

\* physical i64 values; the largest survives a rescale from ms to ns
PhysValues == {0, 1500, -2001}
ValueSeqs == UNION {[1..n -> PhysValues] : n \in 0..MaxLen}

Columns(F) ==
    {Series("a", dt, v) : dt \in {d \in DataTypes(F) : IsTemporal(d)}, v \in ValueSeqs}
    \cup {Series("a", dt, <<>>) : dt \in {d \in DataTypes(F) : ~IsTemporal(d)}}

\* nanoseconds in one tick of a unit
Nanos(tu) == CASE tu = "ns" -> 1 [] tu = "us" -> 1000 [] tu = "ms" -> 1000000

\* i64 division rounds toward zero
Quot(a, b) == IF a >= 0 THEN a \div b ELSE 0 - ((0 - a) \div b)

Rescale(v, src, dst) ==
    IF Nanos(src) >= Nanos(dst)
       THEN v * (Nanos(src) \div Nanos(dst))
       ELSE Quot(v, Nanos(dst) \div Nanos(src))

\* Logical::set_time_unit (polars-core): the dtype reports tu, the values stay
set_time_unit(ca, tu) == [ca EXCEPT !.dtype.tu = tu]

\* DatetimeChunked::set_time_zone (polars-core)
set_time_zone(ca, tz) == [ca EXCEPT !.dtype.tz = tz]

\* DatetimeChunked / DurationChunked ::cast_time_unit (polars-core): the
\* dtype reports tu and every value is rescaled to it
ca_cast_time_unit(ca, tu) ==
    [ca EXCEPT !.dtype.tu = tu,
               !.values = [i \in DOMAIN ca.values |->
                              Rescale(ca.values[i], ca.dtype.tu, tu)]]

ComputeError(msg, dt) ==
    [status |-> "Err", val |-> [error |-> "ComputeError", msg |-> msg, dtype |-> dt]]

\* what a closure did: its result, and its argument s afterwards
Did(r, s) == [ret |-> r, s |-> s]

dt_cast_time_unit_no_duration(s, tu, F) ==
    CASE s.dtype.kind = "Datetime" -> Did(Ok(ca_cast_time_unit(s, tu)), s)
      [] OTHER -> Did(ComputeError("has got no time unit", s.dtype), s)

\* lines 23-36
dt_cast_time_unit(s, tu, F) ==
    CASE s.dtype.kind = "Datetime" -> Did(Ok(ca_cast_time_unit(s, tu)), s)
      [] s.dtype.kind = "Duration" /\ "dtype-duration" \in F ->
            Did(Ok(ca_cast_time_unit(s, tu)), s)
      [] OTHER -> Did(ComputeError("has got no time unit", s.dtype), s)

dt_with_time_unit_rescaling(s, tu, F) ==
    CASE s.dtype.kind = "Datetime" -> Did(Ok(ca_cast_time_unit(s, tu)), s)
      [] s.dtype.kind = "Duration" /\ "dtype-duration" \in F ->
            Did(Ok(ca_cast_time_unit(s, tu)), s)
      [] OTHER -> Did(ComputeError("has got no time unit", s.dtype), s)

\* lines 48-63: the unit is set on a clone
dt_with_time_unit(s, tu, F) ==
    CASE s.dtype.kind = "Datetime" -> Did(Ok(set_time_unit(s, tu)), s)
      [] s.dtype.kind = "Duration" /\ "dtype-duration" \in F ->
            Did(Ok(set_time_unit(s, tu)), s)
      [] OTHER -> Did(ComputeError("has got no time unit", s.dtype), s)

dt_with_time_zone_unwrap(s, tz, F) ==
    CASE s.dtype.kind = "Datetime" -> Did(Ok(set_time_zone(s, tz)), s)
      [] OTHER -> Did(Panic("called Result::unwrap() on an Err value"), s)

\* lines 71-80: the zone is set on a clone
dt_with_time_zone(s, tz, F) ==
    CASE s.dtype.kind = "Datetime" -> Did(Ok(set_time_zone(s, tz)), s)
      [] OTHER -> Did(ComputeError("has got no time zone", s.dtype), s)

cast_time_unit_dtype_drops_zone(dt, tu) ==
    CASE dt.kind = "Duration" -> Ok(Duration(tu))
      [] dt.kind = "Datetime" -> Ok(Datetime(tu, None))
      [] OTHER -> Panic("expected duration or datetime")

\* lines 37-41: the closure given to GetOutput::map_dtype
cast_time_unit_dtype(dt, tu) ==
    CASE dt.kind = "Duration" -> Ok(Duration(tu))
      [] dt.kind = "Datetime" -> Ok(Datetime(tu, dt.tz))
      [] OTHER -> Panic("expected duration or datetime")

\* the closure of an AnonymousFunction node called on the Series s
CallClosure(c, s, F) ==
    CASE c.call = "cast_time_unit" -> dt_cast_time_unit(s, c.captured.tu, F)
      [] c.call = "with_time_unit" -> dt_with_time_unit(s, c.captured.tu, F)
      [] c.call = "with_time_zone" -> dt_with_time_zone(s, c.captured.tz, F)

\* GetOutput evaluated on the dtype of the input field (dsl/mod.rs)
Resolve(output_type, dt) ==
    CASE output_type.rule = "same_type" -> Ok(dt)
      [] output_type.rule = "from_type" -> Ok(output_type.dtype)
      [] output_type.rule = "map_dtype" -> cast_time_unit_dtype(dt, output_type.captured.tu)

InitTemporal ==
    /\ features \in {Features, Features \ {"dtype-duration"}}
    /\ column \in Columns(features)
    /\ input = column
    /\ current = Ok(column)
    /\ dtype = Ok(column.dtype)
    /\ trace = <<>>
    /\ udf = NoResult
    /\ threads = <<>>
    /\ overlap = FALSE
    /\ expr = Receiver
    /\ func = NoFunc
    /\ name = NoResult
    /\ handle = NoResult
    /\ slice = <<>>
    /\ ret = NoResult
    /\ heap = 0
    /\ handles = <<>>
    /\ origin = <<>>

\* the expression e, the latest call c of the chain, is evaluated on the
\* column so far: the schema from its dtype, the data by the closure
Evaluate(e, c) ==
    /\ expr' = e
    /\ trace' = Append(trace, c)
    /\ dtype' = Resolve(e.output_type, current.val.dtype)
    /\ LET r == CallClosure(e.function, current.val, features) IN
          /\ current' = r.ret
          /\ input' = r.s
    /\ UNCHANGED <<features, func, name, handle, slice, ret, column>>
    /\ UNCHANGED handleVars
    /\ UNCHANGED threadVars

CanCall ==
    /\ Len(trace) < MaxCalls
    /\ current.status = "Ok"
    /\ dtype.status = "Ok"

\* expr.dt().cast_time_unit(tu)
CastTimeUnit ==
    /\ CanCall
    /\ \E tu \in TimeUnits :
          Evaluate(cast_time_unit(expr, tu), Call("cast_time_unit", <<tu>>))

\* expr.dt().with_time_unit(tu)
WithTimeUnit ==
    /\ CanCall
    /\ \E tu \in TimeUnits :
          Evaluate(with_time_unit(expr, tu), Call("with_time_unit", <<tu>>))

\* expr.dt().with_time_zone(tz)
WithTimeZone ==
    /\ CanCall
    /\ \E tz \in TimeZones :
          Evaluate(with_time_zone(expr, tz), Call("with_time_zone", <<tz>>))

NextTemporal ==
    \/ CastTimeUnit
    \/ WithTimeUnit
    \/ WithTimeZone

SpecTemporal == InitTemporal /\ [][NextTemporal]_vars

-----------------------------------------------------------------------------
(* Properties of the time-unit and time-zone calls *)

Called == trace # <<>>
LastCall == trace[Len(trace)]

\* the dtypes a call is documented to accept
InDomain(method, dt) ==
    IF method = "with_time_zone" THEN dt.kind = "Datetime" ELSE IsTemporal(dt)

NoUnitOrZone(method) ==
    IF method = "with_time_zone" THEN "has got no time zone" ELSE "has got no time unit"

\* C3: the output-type rule of cast_time_unit(tu) sends Duration(u) to
\* Duration(tu) and Datetime(u, z) to Datetime(tu, z), the zone unchanged;
\* on every other dtype it panics, it returns no error value.
C3_CastRule ==
    (Called /\ LastCall.call = "cast_time_unit") =>
        LET tu == LastCall.arg[1]
            d == input.dtype
        IN /\ d.kind = "Duration" => dtype = Ok(Duration(tu))
           /\ d.kind = "Datetime" => dtype = Ok(Datetime(tu, d.tz))
           /\ ~IsTemporal(d) => dtype = Panic("expected duration or datetime")

\* the rule has mapped a zoned Datetime to another unit
C3_Witness ==
    /\ Called
    /\ LastCall = Call("cast_time_unit", <<"ms">>)
    /\ input.dtype = Datetime("ns", <<"UTC">>)
    /\ dtype = Ok(Datetime("ms", <<"UTC">>))

\* C4: called on a column outside its temporal domain (for with_time_zone:
\* anything but Datetime), each of the three closures returns a ComputeError
\* that names the dtype ("has got no time unit" / "has got no time zone"); it
\* neither panics nor returns a column.
C4_TypedError ==
    (Called /\ ~InDomain(LastCall.call, input.dtype)) =>
        current = ComputeError(NoUnitOrZone(LastCall.call), input.dtype)

\* with_time_zone was called on a string column
C4_Witness ==
    /\ Called
    /\ LastCall.call = "with_time_zone"
    /\ input.dtype = Utf8
    /\ current = ComputeError("has got no time zone", Utf8)

\* C5: on a column of the call's domain, the column the closure returns has
\* the dtype the call's output-type rule predicts from the input dtype.
C5_KernelMatchesRule ==
    (Called /\ InDomain(LastCall.call, input.dtype)) =>
        /\ current.status = "Ok"
        /\ dtype.status = "Ok"
        /\ current.val.dtype = dtype.val

BothCasts ==
    /\ Len(trace) = 2
    /\ trace[1].call = "cast_time_unit"
    /\ trace[2].call = "cast_time_unit"
    /\ IsTemporal(column.dtype)

\* cast_time_unit(tu) alone, on the column the chain started from
Direct(tu) == dt_cast_time_unit(column, tu, features).ret

Coarser(u, v) == Nanos(u) > Nanos(v)

\* C6, as stated: cast_time_unit(u1) then cast_time_unit(u2) gives the unit
\* and the values of cast_time_unit(u2) alone, for all units.
C6_Original == BothCasts => current = Direct(trace[2].arg[1])

\* C6, amended: cast_time_unit on a Datetime or Duration column gives a column
\* of the unit asked for; cast_time_unit(u) twice gives what it gives once;
\* and cast_time_unit(u1) then cast_time_unit(u2) gives what cast_time_unit(u2)
\* alone gives unless u1 is coarser than both the column's unit and u2 (the
\* division on the way to u1 has then dropped digits that u2 keeps).
C6_CastComposes ==
    /\ (Called /\ LastCall.call = "cast_time_unit" /\ IsTemporal(input.dtype)) =>
          /\ current.status = "Ok"
          /\ current.val.dtype.tu = LastCall.arg[1]
    /\ BothCasts =>
          LET u1 == trace[1].arg[1]
              u2 == trace[2].arg[1]
          IN /\ u1 = u2 => current = Direct(u1)
             /\ ~(Coarser(u1, column.dtype.tu) /\ Coarser(u1, u2)) => current = Direct(u2)

\* a Duration column in ms went through ns to us, and a value was divided
C6_Witness ==
    /\ BothCasts
    /\ column.dtype = Duration("ms")
    /\ trace[1].arg[1] = "ns"
    /\ trace[2].arg[1] = "us"
    /\ column.values # <<>>
    /\ column.values[1] = 1500
    /\ current.val.values[1] = 1500000
    /\ current = Direct("us")

\* C7: with_time_unit(tu) returns a column that reports tu and holds the
\* input's values, each as it was, and leaves its input as it was;
\* with_time_zone(tz) changes the zone alone; cast_time_unit(tu) sets the
\* unit and rescales the values.
C7_UnitWithoutRescale ==
    (Called /\ InDomain(LastCall.call, input.dtype)) =>
        LET a == LastCall.arg[1] IN
        /\ Len(trace) = 1 => input = column
        /\ LastCall.call = "with_time_unit" =>
              /\ current.status = "Ok"
              /\ current.val.dtype.tu = a
              /\ current.val.values = input.values
              /\ current.val = [input EXCEPT !.dtype.tu = a]
        /\ LastCall.call = "with_time_zone" =>
              /\ current.status = "Ok"
              /\ current.val = [input EXCEPT !.dtype.tz = a]
        /\ LastCall.call = "cast_time_unit" =>
              /\ current.status = "Ok"
              /\ current.val.dtype.tu = a
              /\ Len(current.val.values) = Len(input.values)
              /\ \A i \in DOMAIN input.values :
                    current.val.values[i] = Rescale(input.values[i], input.dtype.tu, a)

\* with_time_unit relabelled a ns column as ms and kept 1500, where
\* cast_time_unit would have divided it
C7_Witness ==
    /\ Called
    /\ LastCall = Call("with_time_unit", <<"ms">>)
    /\ input.dtype.kind = "Datetime"
    /\ input.dtype.tu = "ns"
    /\ input.values = <<1500>>
    /\ current.val.values = <<1500>>
    /\ current.val.dtype.tu = "ms"
    /\ dt_cast_time_unit(input, "ms", features).ret.val.values = <<0>>
=============================================================================
